---- MODULE Spec2Model ----
(***************************************************************************)
(* Model of the renderer scheduler core:                                   *)
(*   - WorkQueueSets (components/scheduler/base/work_queue_sets.cc, the    *)
(*     second half of real_time_domain.cc in this tree)                    *)
(*   - ThrottlingHelper (components/scheduler/renderer/throttling_helper)  *)
(* DCHECKs are modelled as enabled: a failing DCHECK aborts the process,   *)
(* which is recorded in dcheck_failed; no operation runs afterwards.       *)
(***************************************************************************)
EXTENDS Integers, Sequences, FiniteSets, TLC

(* ------------------------------ bounds --------------------------------- *)
NumSets == 2
MaxEnqueueOrder == 3

MaxTasks == 2
MaxForwards == 2
MaxSeconds == 5

\* base::TimeDelta::FromSeconds(1), in microseconds
OneSecond == 1000000

WorkQueues == {"wq1", "wq2", "wq3"}
TaskQueues == {"tq1", "tq2"}
ControlQueue == "control"
AllQueues == TaskQueues \cup {ControlQueue}
Threads == {"main", "other"}
Ticks == {0, 500000, 2000000}
Delays == {1300000}
Fractions == {0, 1, 300000, 500000, 999999}
\* A second sample of clock readings and delays: a task posted at the epoch with
\* a delay of 2.3 s, and a clock that reaches the 3 s boundary.
LateTicks == {500000, 3000000}
LongDelays == {2300000}
\* A third sample of clock readings: the run time of that task to the tick, then
\* the 3 s boundary.
DueTicks == {2300000, 3000000}
\* A fourth sample, for runs in which every armed pump comes due: the clock
\* reads whole seconds up to LastTick, and work arrives up to EnvHorizon.
LastTick == 3 * OneSecond
LiveTicks == {OneSecond, 2 * OneSecond, LastTick}
EnvHorizon == OneSecond
TimeDomains == {"real", "throttled"}
SetIndices == 0 .. (NumSets - 1)
NoQueue == "none"
NoDcheck == "ok"

VARIABLES
  work_queue,                         \* WorkQueue::work_queue_ : q -> Seq(EnqueueOrder)
  work_queue_set_index,               \* WorkQueue::work_queue_set_index_
  enqueue_order_to_work_queue_maps,   \* WorkQueueSets: set index -> std::map<EnqueueOrder, WorkQueue*>
  next_enqueue_order,                 \* the process-wide EnqueueOrder counter
  removed_queues,                     \* queues torn down through RemoveQueue
  now,                                \* tick_clock_->NowTicks(), microseconds
  throttled_queues_,                  \* ThrottlingHelper::throttled_queues_
  pending_pump_throttled_tasks_runtime_,  \* 0 is the null TimeTicks
  posted_pumps,                       \* PumpThrottledTasks callbacks on the control task runner
  forwarded,                          \* forward_immediate_work_closure_ tasks posted, not yet run
  time_domain,                        \* TaskQueue -> its TimeDomain
  pump_policy,                        \* TaskQueue -> "AUTO" | "MANUAL"
  immediate_incoming_queue,           \* TaskQueue -> Seq(task)
  delayed_incoming_queue,             \* TaskQueue -> set of <<run time, task>>
  delayed_wakeups,                    \* TimeDomain -> set of <<run time, TaskQueue>>
  throttled_now,                      \* the throttled domain's internal clock
  next_task,                          \* next task id
  dispatch_count,                     \* task -> times it entered the dispatch path
  dcheck_failed,                      \* NoDcheck, or the name of the DCHECK that aborted
  runtime_call,                       \* an evaluation of ThrottledRunTime: argument, result
  last_op                             \* the operation that produced the current state

wqs_vars == <<work_queue, work_queue_set_index, enqueue_order_to_work_queue_maps,
              next_enqueue_order, removed_queues>>

th_vars == <<now, throttled_queues_, pending_pump_throttled_tasks_runtime_,
             posted_pumps, forwarded, time_domain, pump_policy,
             immediate_incoming_queue, delayed_incoming_queue, delayed_wakeups,
             throttled_now, next_task, dispatch_count>>

vars == <<wqs_vars, th_vars, dcheck_failed, runtime_call, last_op>>

(* ------------------- std::map<EnqueueOrder, WorkQueue*> ---------------- *)
\* A map is a set of <<key, value>> pairs with pairwise distinct keys.
MapKeys(m) == {p[1] : p \in m}

MapBegin(m) == CHOOSE p \in m : \A r \in m : p[1] <= r[1]

\* std::map::insert does nothing when the key is already present.
MapInsert(m, k, v) == IF k \in MapKeys(m) THEN m ELSE m \cup {<<k, v>>}

MapEraseKey(m, k) == {p \in m : p[1] # k}

MapEraseBegin(m) == m \ {MapBegin(m)}

(* ------------------------------ WorkQueue ------------------------------ *)
HasFrontTaskEnqueueOrder(wq, q) == wq[q] # <<>>

FrontTaskEnqueueOrder(wq, q) == Head(wq[q])

(* ---------------------------- WorkQueueSets ---------------------------- *)
\* Every operation maps (queues, set indices, maps) to the new set indices and
\* maps, and the DCHECK that failed, if any.
WqsResult(idx, maps, dcheck) == [idx |-> idx, maps |-> maps, dcheck |-> dcheck]

RemoveQueueNoErase(wq, idx, maps, q) ==
  IF ~HasFrontTaskEnqueueOrder(wq, q)
  THEN WqsResult(idx, maps, NoDcheck)
  ELSE IF <<FrontTaskEnqueueOrder(wq, q), q>> \notin maps[idx[q]]
  THEN WqsResult(idx, maps, "RemoveQueue:find")
  ELSE WqsResult(idx, maps, NoDcheck)

RemoveQueueErasesBegin(wq, idx, maps, q) ==
  IF ~HasFrontTaskEnqueueOrder(wq, q)
  THEN WqsResult(idx, maps, NoDcheck)
  ELSE IF <<FrontTaskEnqueueOrder(wq, q), q>> \notin maps[idx[q]]
  THEN WqsResult(idx, maps, "RemoveQueue:find")
  ELSE WqsResult(idx, [maps EXCEPT ![idx[q]] = MapEraseBegin(@)], NoDcheck)

RemoveQueue(wq, idx, maps, q) ==
  IF ~HasFrontTaskEnqueueOrder(wq, q)
  THEN WqsResult(idx, maps, NoDcheck)
  ELSE LET enqueue_order == FrontTaskEnqueueOrder(wq, q)
           set_index == idx[q]
       IN IF set_index \notin SetIndices
          THEN WqsResult(idx, maps, "RemoveQueue:set_index")
          ELSE IF <<enqueue_order, q>> \notin maps[set_index]
          THEN WqsResult(idx, maps, "RemoveQueue:find")
          ELSE WqsResult(idx,
                         [maps EXCEPT ![set_index] = MapEraseKey(@, enqueue_order)],
                         NoDcheck)

AssignQueueToSetNoErase(wq, idx, maps, q, set_index) ==
  IF set_index \notin SetIndices
  THEN WqsResult(idx, maps, "AssignQueueToSet:set_index")
  ELSE IF ~HasFrontTaskEnqueueOrder(wq, q)
  THEN WqsResult([idx EXCEPT ![q] = set_index], maps, NoDcheck)
  ELSE WqsResult([idx EXCEPT ![q] = set_index],
                 [maps EXCEPT ![set_index] =
                    MapInsert(@, FrontTaskEnqueueOrder(wq, q), q)],
                 NoDcheck)

AssignQueueToSetKeepsIndex(wq, idx, maps, q, set_index) ==
  IF set_index \notin SetIndices
  THEN WqsResult(idx, maps, "AssignQueueToSet:set_index")
  ELSE IF ~HasFrontTaskEnqueueOrder(wq, q)
  THEN WqsResult(idx, maps, NoDcheck)
  ELSE LET enqueue_order == FrontTaskEnqueueOrder(wq, q)
           erased == [maps EXCEPT ![idx[q]] = MapEraseKey(@, enqueue_order)]
       IN WqsResult(idx,
                    [erased EXCEPT ![set_index] = MapInsert(@, enqueue_order, q)],
                    NoDcheck)

\* Without the early return the key is an EnqueueOrder that was never assigned.
AssignQueueToSetWithoutEarlyReturn(wq, idx, maps, q, set_index) ==
  IF set_index \notin SetIndices
  THEN WqsResult(idx, maps, "AssignQueueToSet:set_index")
  ELSE LET enqueue_order == IF HasFrontTaskEnqueueOrder(wq, q)
                            THEN FrontTaskEnqueueOrder(wq, q) ELSE 0
           erased == [maps EXCEPT ![idx[q]] = MapEraseKey(@, enqueue_order)]
       IN WqsResult([idx EXCEPT ![q] = set_index],
                    [erased EXCEPT ![set_index] = MapInsert(@, enqueue_order, q)],
                    NoDcheck)

AssignQueueToSet(wq, idx, maps, q, set_index) ==
  IF set_index \notin SetIndices
  THEN WqsResult(idx, maps, "AssignQueueToSet:set_index")
  ELSE LET old_set == idx[q]
           new_idx == [idx EXCEPT ![q] = set_index]
       IN IF ~HasFrontTaskEnqueueOrder(wq, q)
          THEN WqsResult(new_idx, maps, NoDcheck)
          ELSE LET enqueue_order == FrontTaskEnqueueOrder(wq, q)
                   erased == [maps EXCEPT ![old_set] = MapEraseKey(@, enqueue_order)]
               IN WqsResult(new_idx,
                            [erased EXCEPT ![set_index] = MapInsert(@, enqueue_order, q)],
                            NoDcheck)

OnPushQueueIntoFirstSet(wq, idx, maps, q) ==
  IF ~HasFrontTaskEnqueueOrder(wq, q)
  THEN WqsResult(idx, maps, "OnPushQueue:has_enqueue_order")
  ELSE WqsResult(idx,
                 [maps EXCEPT ![0] = MapInsert(@, FrontTaskEnqueueOrder(wq, q), q)],
                 NoDcheck)

\* Without the assertion the key is an EnqueueOrder that was never assigned.
OnPushQueueWithoutCheck(wq, idx, maps, q) ==
  LET enqueue_order == IF HasFrontTaskEnqueueOrder(wq, q)
                       THEN FrontTaskEnqueueOrder(wq, q) ELSE 0
  IN WqsResult(idx, [maps EXCEPT ![idx[q]] = MapInsert(@, enqueue_order, q)], NoDcheck)

OnPushQueue(wq, idx, maps, q) ==
  IF ~HasFrontTaskEnqueueOrder(wq, q)
  THEN WqsResult(idx, maps, "OnPushQueue:has_enqueue_order")
  ELSE LET enqueue_order == FrontTaskEnqueueOrder(wq, q)
           set_index == idx[q]
       IN WqsResult(idx,
                    [maps EXCEPT ![set_index] = MapInsert(@, enqueue_order, q)],
                    NoDcheck)

OnPopQueueNoReinsert(wq, idx, maps, q) ==
  LET set_index == idx[q]
  IN IF maps[set_index] = {}
     THEN WqsResult(idx, maps, "OnPopQueue:empty")
     ELSE IF MapBegin(maps[set_index])[2] # q
     THEN WqsResult(idx, maps, "OnPopQueue:begin")
     ELSE WqsResult(idx, [maps EXCEPT ![set_index] = MapEraseBegin(@)], NoDcheck)

OnPopQueueNoErase(wq, idx, maps, q) ==
  LET set_index == idx[q]
  IN IF maps[set_index] = {}
     THEN WqsResult(idx, maps, "OnPopQueue:empty")
     ELSE IF MapBegin(maps[set_index])[2] # q
     THEN WqsResult(idx, maps, "OnPopQueue:begin")
     ELSE IF ~HasFrontTaskEnqueueOrder(wq, q)
     THEN WqsResult(idx, maps, NoDcheck)
     ELSE WqsResult(idx,
                    [maps EXCEPT ![set_index] =
                       MapInsert(@, FrontTaskEnqueueOrder(wq, q), q)],
                    NoDcheck)

OnPopQueueNoBeginCheck(wq, idx, maps, q) ==
  LET set_index == idx[q]
  IN IF maps[set_index] = {}
     THEN WqsResult(idx, maps, "OnPopQueue:empty")
     ELSE LET erased == [maps EXCEPT ![set_index] = MapEraseBegin(@)]
          IN IF ~HasFrontTaskEnqueueOrder(wq, q)
             THEN WqsResult(idx, erased, NoDcheck)
             ELSE WqsResult(idx,
                            [erased EXCEPT ![set_index] =
                               MapInsert(@, FrontTaskEnqueueOrder(wq, q), q)],
                            NoDcheck)

OnPopQueue(wq, idx, maps, q) ==
  LET set_index == idx[q]
  IN IF maps[set_index] = {}
     THEN WqsResult(idx, maps, "OnPopQueue:empty")
     ELSE IF MapBegin(maps[set_index])[2] # q
     THEN WqsResult(idx, maps, "OnPopQueue:begin")
     ELSE LET erased == [maps EXCEPT ![set_index] = MapEraseBegin(@)]
          IN IF ~HasFrontTaskEnqueueOrder(wq, q)
             THEN WqsResult(idx, erased, NoDcheck)
             ELSE WqsResult(idx,
                            [erased EXCEPT ![set_index] =
                               MapInsert(@, FrontTaskEnqueueOrder(wq, q), q)],
                            NoDcheck)

IsSetEmptyInverted(maps, set_index) == maps[set_index] # {}

IsSetEmpty(maps, set_index) == maps[set_index] = {}

GetNewestQueueInSet(maps, set_index) ==
  IF maps[set_index] = {} THEN NoQueue
  ELSE (CHOOSE p \in maps[set_index] : \A r \in maps[set_index] : r[1] <= p[1])[2]

GetOldestQueueInFirstSet(maps, set_index) ==
  IF maps[0] = {} THEN NoQueue ELSE MapBegin(maps[0])[2]

GetOldestQueueInSet(maps, set_index) ==
  IF maps[set_index] = {} THEN NoQueue ELSE MapBegin(maps[set_index])[2]

(* ------------------ callers of WorkQueueSets (spec 4.1, 4.4) ----------- *)
\* Priority drain: set index 0 is the highest priority.
RECURSIVE SelectFrom(_, _)
SelectFrom(maps, set_index) ==
  IF set_index \notin SetIndices THEN NoQueue
  ELSE IF ~IsSetEmpty(maps, set_index) THEN GetOldestQueueInSet(maps, set_index)
  ELSE SelectFrom(maps, set_index + 1)

SelectWorkQueueToService(maps) == SelectFrom(maps, 0)

\* last_op: the operation, its queue (or thread), the unthrottled run time it passed
\* to MaybeSchedulePumpThrottledTasksLocked (-1: no such call), for Unthrottle,
\* whether it directly follows Throttle of the same queue, the set index it was
\* given (-1: none), what a query returned, how often PumpThrottledTasks called
\* PumpQueue on each task queue, and the delay it was given or asked the task
\* queue manager to wake up after (-1: none).
NoPumps == [q \in TaskQueues |-> 0]

NoOp == [op |-> "Init", queue |-> NoQueue, arg |-> -1, roundtrip |-> FALSE,
         set |-> -1, result |-> NoQueue, pumped |-> NoPumps, delay |-> -1,
         repeated |-> FALSE]

Op(name, q) == [NoOp EXCEPT !.op = name, !.queue = q]

OpOnSet(name, q, s) == [NoOp EXCEPT !.op = name, !.queue = q, !.set = s]

ApplyOp(r, op) ==
  /\ work_queue_set_index' = r.idx
  /\ enqueue_order_to_work_queue_maps' = r.maps
  /\ dcheck_failed' = r.dcheck
  /\ last_op' = op
  /\ UNCHANGED <<th_vars, runtime_call>>

Apply(r, name, q) == ApplyOp(r, Op(name, q))

Live(q) == q \in WorkQueues \ removed_queues

Running == dcheck_failed = NoDcheck

\* WorkQueue::Push: append the task; notify the sets when the queue was empty.
Push(q) ==
  /\ Running /\ Live(q)
  /\ next_enqueue_order <= MaxEnqueueOrder
  /\ LET was_empty == work_queue[q] = <<>>
         wq == [work_queue EXCEPT ![q] = Append(@, next_enqueue_order)]
     IN /\ work_queue' = wq
        /\ next_enqueue_order' = next_enqueue_order + 1
        /\ Apply(IF was_empty
                 THEN OnPushQueue(wq, work_queue_set_index,
                                  enqueue_order_to_work_queue_maps, q)
                 ELSE WqsResult(work_queue_set_index,
                                enqueue_order_to_work_queue_maps, NoDcheck),
                 "Push", q)
  /\ UNCHANGED removed_queues

\* WorkQueue::PopTaskFromQueue: take the front task, then OnPopQueue.
PopTaskFromQueue(q, name) ==
  /\ work_queue[q] # <<>>
  /\ LET wq == [work_queue EXCEPT ![q] = Tail(@)]
     IN /\ work_queue' = wq
        /\ Apply(OnPopQueue(wq, work_queue_set_index,
                            enqueue_order_to_work_queue_maps, q),
                 name, q)
  /\ UNCHANGED <<next_enqueue_order, removed_queues>>

Pop(q) == Running /\ Live(q) /\ PopTaskFromQueue(q, "Pop")

\* One dispatch step: select by priority, run the front task of the selection.
DoWork ==
  /\ Running
  /\ SelectWorkQueueToService(enqueue_order_to_work_queue_maps) # NoQueue
  /\ PopTaskFromQueue(SelectWorkQueueToService(enqueue_order_to_work_queue_maps),
                      "DoWork")

CallAssignQueueToSet(q, s) ==
  /\ Running /\ Live(q)
  /\ ApplyOp(AssignQueueToSet(work_queue, work_queue_set_index,
                              enqueue_order_to_work_queue_maps, q, s),
             OpOnSet("AssignQueueToSet", q, s))
  /\ UNCHANGED <<work_queue, next_enqueue_order, removed_queues>>

CallOnPushQueue(q) ==
  /\ Running /\ Live(q)
  /\ Apply(OnPushQueue(work_queue, work_queue_set_index,
                       enqueue_order_to_work_queue_maps, q),
           "OnPushQueue", q)
  /\ UNCHANGED <<work_queue, next_enqueue_order, removed_queues>>

CallOnPopQueue(q) ==
  /\ Running /\ Live(q)
  /\ Apply(OnPopQueue(work_queue, work_queue_set_index,
                      enqueue_order_to_work_queue_maps, q),
           "OnPopQueue", q)
  /\ UNCHANGED <<work_queue, next_enqueue_order, removed_queues>>

\* Queue teardown: the queue is removed from the sets and never used again.
CallRemoveQueue(q) ==
  /\ Running /\ Live(q)
  /\ Apply(RemoveQueue(work_queue, work_queue_set_index,
                       enqueue_order_to_work_queue_maps, q),
           "RemoveQueue", q)
  /\ removed_queues' = removed_queues \cup {q}
  /\ UNCHANGED <<work_queue, next_enqueue_order>>

\* The two queries of the selector; what they return is kept in last_op.
CallGetOldestQueueInSet(s) ==
  /\ Running
  /\ last_op' = [OpOnSet("GetOldestQueueInSet", NoQueue, s) EXCEPT
                    !.result = GetOldestQueueInSet(enqueue_order_to_work_queue_maps, s)]
  /\ UNCHANGED <<wqs_vars, th_vars, dcheck_failed, runtime_call>>

CallIsSetEmpty(s) ==
  /\ Running
  /\ last_op' = [OpOnSet("IsSetEmpty", NoQueue, s) EXCEPT
                    !.result = IF IsSetEmpty(enqueue_order_to_work_queue_maps, s)
                               THEN "true" ELSE "false"]
  /\ UNCHANGED <<wqs_vars, th_vars, dcheck_failed, runtime_call>>

(* ------------------------------- time ---------------------------------- *)
\* The % of C++ on int64: the remainder has the sign of the dividend.
Rem(a, b) == IF a >= 0 THEN a % b ELSE 0 - ((0 - a) % b)

IsNull(t) == t = 0

MinTime(S) == CHOOSE t \in S : \A u \in S : t <= u

(* ------------------- TaskQueue and TimeDomain (spec 3, 4.3) ------------ *)
DomainNow(d, real_now, virtual_now) == IF d = "real" THEN real_now ELSE virtual_now

IsEmpty(imm, del, q) == imm[q] = <<>> /\ del[q] = {}

HasPendingImmediateWork(imm, del, q, domain_now) ==
  \/ imm[q] # <<>>
  \/ \E d \in del[q] : d[1] <= domain_now

HasNextScheduledRunTime(wakeups, d) == wakeups[d] # {}

NextScheduledRunTime(wakeups, d) == MinTime({w[1] : w \in wakeups[d]})

\* TaskQueue::SetTimeDomain: the queue's wake-ups move with it.
SetTimeDomain(wakeups, from, to, q) ==
  IF from = to THEN wakeups
  ELSE [d \in TimeDomains |->
          IF d = from THEN {w \in wakeups[d] : w[2] # q}
          ELSE IF d = to THEN wakeups[d] \cup {w \in wakeups[from] : w[2] = q}
          ELSE wakeups[d]]

ClearExpiredWakeups(wakeups, d, domain_now) ==
  [wakeups EXCEPT ![d] = {w \in @ : w[1] > domain_now}]

\* The tasks PumpQueue moves into the dispatch path: every immediate task and
\* every delayed task whose run time has come in the queue's time domain.
ReadyTasks(imm, del, q, domain_now) ==
  {imm[q][i] : i \in 1 .. Len(imm[q])} \cup {d[2] : d \in {e \in del[q] : e[1] <= domain_now}}

(* ---------------------------- RealTimeDomain --------------------------- *)
ComputeDelayedRunTimeQuantized(time_domain_now, delay) ==
  (time_domain_now + delay) + OneSecond - Rem(time_domain_now + delay, OneSecond)

ComputeDelayedRunTime(time_domain_now, delay) == time_domain_now + delay

AdvanceResult(result, delay) == [result |-> result, delay |-> delay]

MaybeAdvanceTimeStrict(wakeups, tick_now) ==
  IF ~HasNextScheduledRunTime(wakeups, "real") THEN AdvanceResult("false", -1)
  ELSE IF tick_now > NextScheduledRunTime(wakeups, "real") THEN AdvanceResult("true", -1)
  ELSE AdvanceResult("false", NextScheduledRunTime(wakeups, "real") - tick_now)

\* Without the early return next_run_time keeps its default value, the null TimeTicks.
MaybeAdvanceTimeWithoutEarlyReturn(wakeups, tick_now) ==
  LET next_run_time == IF HasNextScheduledRunTime(wakeups, "real")
                       THEN NextScheduledRunTime(wakeups, "real") ELSE 0
  IN IF tick_now >= next_run_time THEN AdvanceResult("true", -1)
     ELSE AdvanceResult("false", next_run_time - tick_now)

\* The result, and the delay passed to MaybeScheduleDelayedWork (-1: not called).
MaybeAdvanceTime(wakeups, tick_now) ==
  IF ~HasNextScheduledRunTime(wakeups, "real") THEN AdvanceResult("false", -1)
  ELSE IF tick_now >= NextScheduledRunTime(wakeups, "real") THEN AdvanceResult("true", -1)
  ELSE AdvanceResult("false", NextScheduledRunTime(wakeups, "real") - tick_now)

(* --------------------------- ThrottlingHelper -------------------------- *)
\* CancelableClosureHolder::Cancel: callbacks already posted never run.
CancelPosted(posted) == {[cb EXCEPT !.cancelled = TRUE] : cb \in posted}

LivePumps(posted) == {cb \in posted : ~cb.cancelled}

Sched(pending, posted, dcheck) == [pending |-> pending, posted |-> posted, dcheck |-> dcheck]

ThrottledRunTimeStaysOnBoundary(unthrottled_runtime) ==
  unthrottled_runtime +
    ((OneSecond - Rem(unthrottled_runtime - 0, OneSecond)) % OneSecond)

ThrottledRunTimeSkipsSecond(unthrottled_runtime) ==
  unthrottled_runtime + OneSecond + OneSecond - Rem(unthrottled_runtime - 0, OneSecond)

ThrottledRunTimeAddsSecond(unthrottled_runtime) == unthrottled_runtime + OneSecond

ThrottledRunTime(unthrottled_runtime) ==
  unthrottled_runtime + OneSecond - Rem(unthrottled_runtime - 0, OneSecond)

PumpDelayWholeSecond(pending_runtime, tick_now) == OneSecond

\* The delay given to task_runner_->PostDelayedTask.
PumpDelay(pending_runtime, tick_now) == pending_runtime - tick_now

MaybeScheduleWithoutCancel(pending, posted, tick_now, unthrottled_runtime) ==
  LET throttled_runtime == ThrottledRunTime(unthrottled_runtime)
  IN IF ~IsNull(pending) /\ throttled_runtime >= pending
     THEN Sched(pending, posted, NoDcheck)
     ELSE Sched(throttled_runtime,
                posted \cup {[run_at |-> throttled_runtime, cancelled |-> FALSE]},
                NoDcheck)

MaybeScheduleAlways(pending, posted, tick_now, unthrottled_runtime) ==
  Sched(ThrottledRunTime(unthrottled_runtime),
        CancelPosted(posted) \cup
          {[run_at |-> ThrottledRunTime(unthrottled_runtime), cancelled |-> FALSE]},
        NoDcheck)

MaybeScheduleKeepsLater(pending, posted, tick_now, unthrottled_runtime) ==
  LET throttled_runtime == ThrottledRunTime(unthrottled_runtime)
  IN IF ~IsNull(pending) /\ throttled_runtime <= pending
     THEN Sched(pending, posted, NoDcheck)
     ELSE Sched(throttled_runtime,
                CancelPosted(posted) \cup
                  {[run_at |-> throttled_runtime, cancelled |-> FALSE]},
                NoDcheck)

MaybeScheduleCancelsFirst(pending, posted, tick_now, unthrottled_runtime) ==
  LET throttled_runtime == ThrottledRunTime(unthrottled_runtime)
  IN IF ~IsNull(pending) /\ throttled_runtime >= pending
     THEN Sched(pending, CancelPosted(posted), NoDcheck)
     ELSE Sched(throttled_runtime,
                CancelPosted(posted) \cup
                  {[run_at |-> throttled_runtime, cancelled |-> FALSE]},
                NoDcheck)

MaybeSchedulePumpThrottledTasksLocked(pending, posted, tick_now, unthrottled_runtime) ==
  LET throttled_runtime == ThrottledRunTime(unthrottled_runtime)
  IN IF ~IsNull(pending) /\ throttled_runtime >= pending
     THEN Sched(pending, posted, NoDcheck)
     ELSE Sched(throttled_runtime,
                CancelPosted(posted) \cup
                  {[run_at |-> tick_now + PumpDelay(throttled_runtime, tick_now),
                    cancelled |-> FALSE]},
                NoDcheck)

RunsTasksOnAnyThread(thread) == TRUE

\* task_runner_->RunsTasksOnCurrentThread(): "main" owns the control task runner.
RunsTasksOnCurrentThread(thread) == thread = "main"

OnTimeDomainHasImmediateWorkOffThreadFallsThrough(pending, posted, tick_now) ==
  MaybeSchedulePumpThrottledTasksLocked(pending, posted, tick_now, tick_now)

\* On another thread: the forwarding task is posted (in the actions) and the
\* call returns.
OnTimeDomainHasImmediateWorkOffThread(pending, posted, tick_now) ==
  Sched(pending, posted, NoDcheck)

OnTimeDomainHasImmediateWorkNoSchedule(pending, posted, tick_now) ==
  Sched(pending, posted, NoDcheck)

\* On the control task runner's thread.
OnTimeDomainHasImmediateWork(pending, posted, tick_now) ==
  MaybeSchedulePumpThrottledTasksLocked(pending, posted, tick_now, tick_now)

OnTimeDomainHasDelayedWorkNoSchedule(pending, posted, wakeups, tick_now) ==
  IF ~HasNextScheduledRunTime(wakeups, "throttled")
  THEN Sched(pending, posted, "OnTimeDomainHasDelayedWork:has_delayed_task")
  ELSE Sched(pending, posted, NoDcheck)

OnTimeDomainHasDelayedWorkUsesNow(pending, posted, wakeups, tick_now) ==
  IF ~HasNextScheduledRunTime(wakeups, "throttled")
  THEN Sched(pending, posted, "OnTimeDomainHasDelayedWork:has_delayed_task")
  ELSE MaybeSchedulePumpThrottledTasksLocked(pending, posted, tick_now, tick_now)

OnTimeDomainHasDelayedWork(pending, posted, wakeups, tick_now) ==
  IF ~HasNextScheduledRunTime(wakeups, "throttled")
  THEN Sched(pending, posted, "OnTimeDomainHasDelayedWork:has_delayed_task")
  ELSE MaybeSchedulePumpThrottledTasksLocked(
         pending, posted, tick_now, NextScheduledRunTime(wakeups, "throttled"))

IsTaskRunnerNever(task_queue) == FALSE

\* DCHECK_NE(task_queue, task_runner_.get()) fails for the control task queue.
IsTaskRunner(task_queue) == task_queue = ControlQueue

ThrottleFindsWorkAlways(imm, del, task_queue) == TRUE

\* if (!task_queue->IsEmpty()): Throttle notifies only for a queue that holds a task.
ThrottleFindsWork(imm, del, task_queue) == ~IsEmpty(imm, del, task_queue)

ThrottleInsertToggles(throttled, task_queue) ==
  IF task_queue \in throttled THEN throttled \ {task_queue}
  ELSE throttled \cup {task_queue}

ThrottleInsertMissing(throttled, task_queue) == throttled

ThrottleInsert(throttled, task_queue) == throttled \cup {task_queue}

UnthrottleEraseMissing(throttled, task_queue) == throttled

UnthrottleErase(throttled, task_queue) == throttled \ {task_queue}

ThOp(name, q, a) == [NoOp EXCEPT !.op = name, !.queue = q, !.arg = a]

\* A Throttle step; repeated: the queue was in throttled_queues_ already.
ThrottleOp(q, a) == [ThOp("Throttle", q, a) EXCEPT !.repeated = q \in throttled_queues_]

ApplySched(r) ==
  /\ pending_pump_throttled_tasks_runtime_' = r.pending
  /\ posted_pumps' = r.posted
  /\ dcheck_failed' = r.dcheck

Throttle(task_queue) ==
  /\ Running
  /\ IF IsTaskRunner(task_queue)
     THEN /\ dcheck_failed' = "Throttle:task_runner"
          /\ last_op' = ThrottleOp(task_queue, -1)
          /\ UNCHANGED th_vars
     ELSE LET wakeups == SetTimeDomain(delayed_wakeups, time_domain[task_queue],
                                       "throttled", task_queue)
          IN /\ throttled_queues_' = ThrottleInsert(throttled_queues_, task_queue)
             /\ time_domain' = [time_domain EXCEPT ![task_queue] = "throttled"]
             /\ pump_policy' = [pump_policy EXCEPT ![task_queue] = "MANUAL"]
             /\ delayed_wakeups' = wakeups
             /\ IF ~ThrottleFindsWork(immediate_incoming_queue, delayed_incoming_queue,
                                      task_queue)
                THEN /\ UNCHANGED <<pending_pump_throttled_tasks_runtime_, posted_pumps,
                                    dcheck_failed>>
                     /\ last_op' = ThrottleOp(task_queue, -1)
                ELSE IF HasPendingImmediateWork(immediate_incoming_queue,
                                                delayed_incoming_queue, task_queue,
                                                throttled_now)
                THEN /\ ApplySched(OnTimeDomainHasImmediateWork(
                          pending_pump_throttled_tasks_runtime_, posted_pumps, now))
                     /\ last_op' = ThrottleOp(task_queue, now)
                ELSE /\ ApplySched(OnTimeDomainHasDelayedWork(
                          pending_pump_throttled_tasks_runtime_, posted_pumps,
                          wakeups, now))
                     /\ last_op' = ThrottleOp(task_queue,
                                              IF HasNextScheduledRunTime(wakeups, "throttled")
                                              THEN NextScheduledRunTime(wakeups, "throttled")
                                              ELSE -1)
             /\ UNCHANGED <<now, forwarded, immediate_incoming_queue,
                            delayed_incoming_queue, throttled_now, next_task,
                            dispatch_count>>
  /\ UNCHANGED <<wqs_vars, runtime_call>>

Unthrottle(task_queue) ==
  /\ Running
  /\ throttled_queues_' = UnthrottleErase(throttled_queues_, task_queue)
  /\ delayed_wakeups' = SetTimeDomain(delayed_wakeups, time_domain[task_queue],
                                      "real", task_queue)
  /\ time_domain' = [time_domain EXCEPT ![task_queue] = "real"]
  /\ pump_policy' = [pump_policy EXCEPT ![task_queue] = "AUTO"]
  /\ last_op' = [ThOp("Unthrottle", task_queue, -1) EXCEPT
                    !.roundtrip = (last_op.op = "Throttle" /\ last_op.queue = task_queue)]
  /\ UNCHANGED <<now, pending_pump_throttled_tasks_runtime_, posted_pumps, forwarded,
                 immediate_incoming_queue, delayed_incoming_queue, throttled_now,
                 next_task, dispatch_count, dcheck_failed>>
  /\ UNCHANGED <<wqs_vars, runtime_call>>

\* The tick clock moves on.
AdvanceClock(tick) ==
  /\ Running
  /\ tick > now
  /\ now' = tick
  /\ last_op' = ThOp("AdvanceClock", NoQueue, -1)
  /\ UNCHANGED <<throttled_queues_, pending_pump_throttled_tasks_runtime_, posted_pumps,
                 forwarded, time_domain, pump_policy, immediate_incoming_queue,
                 delayed_incoming_queue, delayed_wakeups, throttled_now, next_task,
                 dispatch_count, dcheck_failed>>
  /\ UNCHANGED <<wqs_vars, runtime_call>>

\* The throttled time domain reports immediate work to its observer, on any thread.
NotifyImmediateWork(thread) ==
  /\ Running
  /\ IF ~RunsTasksOnCurrentThread(thread)
     THEN /\ forwarded < MaxForwards
          /\ forwarded' = forwarded + 1
          /\ ApplySched(OnTimeDomainHasImmediateWorkOffThread(
               pending_pump_throttled_tasks_runtime_, posted_pumps, now))
     ELSE /\ ApplySched(OnTimeDomainHasImmediateWork(
               pending_pump_throttled_tasks_runtime_, posted_pumps, now))
          /\ UNCHANGED forwarded
  /\ last_op' = ThOp("OnTimeDomainHasImmediateWork", thread,
                     IF RunsTasksOnCurrentThread(thread) THEN now ELSE -1)
  /\ UNCHANGED <<now, throttled_queues_, time_domain, pump_policy,
                 immediate_incoming_queue, delayed_incoming_queue, delayed_wakeups,
                 throttled_now, next_task, dispatch_count>>
  /\ UNCHANGED <<wqs_vars, runtime_call>>

\* The control task runner runs a posted forward_immediate_work_closure_.
RunForwardedImmediateWork ==
  /\ Running
  /\ forwarded > 0
  /\ forwarded' = forwarded - 1
  /\ ApplySched(OnTimeDomainHasImmediateWork(
       pending_pump_throttled_tasks_runtime_, posted_pumps, now))
  /\ last_op' = ThOp("OnTimeDomainHasImmediateWork", "forwarded", now)
  /\ UNCHANGED <<now, throttled_queues_, time_domain, pump_policy,
                 immediate_incoming_queue, delayed_incoming_queue, delayed_wakeups,
                 throttled_now, next_task, dispatch_count>>
  /\ UNCHANGED <<wqs_vars, runtime_call>>

\* A non-delayed task is posted to a task queue, from any thread; a queue of the
\* throttled domain makes the domain report immediate work on that thread.
PostTask(task_queue, thread) ==
  /\ Running
  /\ next_task <= MaxTasks
  /\ next_task' = next_task + 1
  /\ immediate_incoming_queue' =
       [immediate_incoming_queue EXCEPT ![task_queue] = Append(@, next_task)]
  /\ IF time_domain[task_queue] # "throttled"
     THEN UNCHANGED <<pending_pump_throttled_tasks_runtime_, posted_pumps, dcheck_failed,
                      forwarded>>
     ELSE IF ~RunsTasksOnCurrentThread(thread)
     THEN /\ forwarded < MaxForwards
          /\ forwarded' = forwarded + 1
          /\ ApplySched(OnTimeDomainHasImmediateWorkOffThread(
               pending_pump_throttled_tasks_runtime_, posted_pumps, now))
     ELSE /\ ApplySched(OnTimeDomainHasImmediateWork(
               pending_pump_throttled_tasks_runtime_, posted_pumps, now))
          /\ UNCHANGED forwarded
  /\ last_op' = ThOp("PostTask", task_queue,
                     IF time_domain[task_queue] = "throttled" /\
                        RunsTasksOnCurrentThread(thread)
                     THEN now ELSE -1)
  /\ UNCHANGED <<now, throttled_queues_, time_domain, pump_policy,
                 delayed_incoming_queue, delayed_wakeups, throttled_now, dispatch_count>>
  /\ UNCHANGED <<wqs_vars, runtime_call>>

\* A delayed task is posted on the owning thread: its run time is computed in the
\* queue's time domain and a wake-up is recorded there; the throttled domain
\* reports delayed work to its observer.
PostDelayedTask(task_queue, delay) ==
  /\ Running
  /\ next_task <= MaxTasks
  /\ next_task' = next_task + 1
  /\ LET d == time_domain[task_queue]
         run_time == IF d = "real"
                     THEN ComputeDelayedRunTime(DomainNow(d, now, throttled_now), delay)
                     ELSE DomainNow(d, now, throttled_now) + delay
         wakeups == [delayed_wakeups EXCEPT ![d] = @ \cup {<<run_time, task_queue>>}]
     IN /\ delayed_incoming_queue' =
             [delayed_incoming_queue EXCEPT ![task_queue] = @ \cup {<<run_time, next_task>>}]
        /\ delayed_wakeups' = wakeups
        /\ IF d = "throttled"
           THEN ApplySched(OnTimeDomainHasDelayedWork(
                  pending_pump_throttled_tasks_runtime_, posted_pumps, wakeups, now))
           ELSE UNCHANGED <<pending_pump_throttled_tasks_runtime_, posted_pumps,
                            dcheck_failed>>
        /\ last_op' = [ThOp("PostDelayedTask", task_queue,
                            IF d = "throttled"
                            THEN NextScheduledRunTime(wakeups, "throttled") ELSE -1)
                        EXCEPT !.delay = delay]
  /\ UNCHANGED <<now, throttled_queues_, forwarded, time_domain, pump_policy,
                 immediate_incoming_queue, throttled_now, dispatch_count>>
  /\ UNCHANGED <<wqs_vars, runtime_call>>

QueuesToPumpAll(throttled, imm, del) == {q \in TaskQueues : ~IsEmpty(imm, del, q)}

QueuesToPumpWithoutEmptyCheck(throttled, imm, del) == throttled

\* The queues PumpThrottledTasks pumps.
QueuesToPump(throttled, imm, del) == {q \in throttled : ~IsEmpty(imm, del, q)}

\* The loop visits each element of the std::set once: the PumpQueue calls per queue.
PumpQueueCalls(pumped) == [q \in TaskQueues |-> IF q \in pumped THEN 1 ELSE 0]

KeepPendingPump(pending) == pending

\* pending_pump_throttled_tasks_runtime_ = base::TimeTicks()
ClearPendingPump(pending) == 0

Dispatch(counts, tasks) == [t \in DOMAIN counts |-> IF t \in tasks THEN counts[t] + 1 ELSE counts[t]]

PumpThrottledTasks(posted) ==
  LET pumped == QueuesToPump(throttled_queues_, immediate_incoming_queue,
                             delayed_incoming_queue)
      moved == UNION {ReadyTasks(immediate_incoming_queue, delayed_incoming_queue, q, now) :
                        q \in pumped}
      wakeups == ClearExpiredWakeups(delayed_wakeups, "throttled", now)
      cleared == ClearPendingPump(pending_pump_throttled_tasks_runtime_)
  IN /\ throttled_now' = now
     /\ immediate_incoming_queue' =
          [q \in AllQueues |-> IF q \in pumped THEN <<>> ELSE immediate_incoming_queue[q]]
     /\ delayed_incoming_queue' =
          [q \in AllQueues |->
             IF q \in pumped THEN {d \in delayed_incoming_queue[q] : d[1] > now}
             ELSE delayed_incoming_queue[q]]
     /\ dispatch_count' = Dispatch(dispatch_count, moved)
     /\ delayed_wakeups' = wakeups
     /\ IF HasNextScheduledRunTime(wakeups, "throttled")
        THEN /\ ApplySched(MaybeSchedulePumpThrottledTasksLocked(
                  cleared, posted, now, NextScheduledRunTime(wakeups, "throttled")))
             /\ last_op' = [ThOp("PumpThrottledTasks", NoQueue,
                                 NextScheduledRunTime(wakeups, "throttled"))
                             EXCEPT !.pumped = PumpQueueCalls(pumped)]
        ELSE /\ ApplySched(Sched(cleared, posted, NoDcheck))
             /\ last_op' = [ThOp("PumpThrottledTasks", NoQueue, -1)
                             EXCEPT !.pumped = PumpQueueCalls(pumped)]

\* The control task runner runs a posted pump callback whose delay has passed.
RunPumpCallback ==
  /\ Running
  /\ \E cb \in posted_pumps :
       /\ cb.run_at <= now
       /\ ~cb.cancelled
       /\ PumpThrottledTasks(posted_pumps \ {cb})
  /\ UNCHANGED <<now, throttled_queues_, forwarded, time_domain, pump_policy, next_task>>
  /\ UNCHANGED <<wqs_vars, runtime_call>>

\* A cancelled callback comes due: its weak pointer is dead and nothing runs.
RunCancelledPumpCallback ==
  /\ Running
  /\ \E cb \in posted_pumps :
       /\ cb.run_at <= now
       /\ cb.cancelled
       /\ posted_pumps' = posted_pumps \ {cb}
  /\ last_op' = ThOp("CancelledPumpCallback", NoQueue, -1)
  /\ UNCHANGED <<now, throttled_queues_, pending_pump_throttled_tasks_runtime_, forwarded,
                 time_domain, pump_policy, immediate_incoming_queue,
                 delayed_incoming_queue, delayed_wakeups, throttled_now, next_task,
                 dispatch_count, dcheck_failed>>
  /\ UNCHANGED <<wqs_vars, runtime_call>>

\* The task queue manager asks the real time domain whether work is due.
CallMaybeAdvanceTime ==
  /\ Running
  /\ LET r == MaybeAdvanceTime(delayed_wakeups, now)
     IN last_op' = [Op("MaybeAdvanceTime", NoQueue) EXCEPT
                      !.result = r.result, !.delay = r.delay]
  /\ UNCHANGED <<wqs_vars, th_vars, dcheck_failed, runtime_call>>

\* The task queue manager's DoWork on the real time domain: every AUTO queue's
\* ready tasks enter the dispatch path and the expired wake-ups are dropped.
RunAutoQueues ==
  /\ Running
  /\ LET auto == {q \in TaskQueues : pump_policy[q] = "AUTO" /\ time_domain[q] = "real"}
         moved == UNION {ReadyTasks(immediate_incoming_queue, delayed_incoming_queue, q, now) :
                           q \in auto}
     IN /\ moved # {}
        /\ immediate_incoming_queue' =
             [q \in AllQueues |-> IF q \in auto THEN <<>> ELSE immediate_incoming_queue[q]]
        /\ delayed_incoming_queue' =
             [q \in AllQueues |->
                IF q \in auto THEN {d \in delayed_incoming_queue[q] : d[1] > now}
                ELSE delayed_incoming_queue[q]]
        /\ dispatch_count' = Dispatch(dispatch_count, moved)
        /\ delayed_wakeups' = ClearExpiredWakeups(delayed_wakeups, "real", now)
  /\ last_op' = ThOp("DoWork", NoQueue, -1)
  /\ UNCHANGED <<now, throttled_queues_, pending_pump_throttled_tasks_runtime_,
                 posted_pumps, forwarded, time_domain, pump_policy, throttled_now,
                 next_task, dcheck_failed>>
  /\ UNCHANGED <<wqs_vars, runtime_call>>

InitWQS ==
  /\ work_queue = [q \in WorkQueues |-> <<>>]
  /\ work_queue_set_index = [q \in WorkQueues |-> 0]
  /\ enqueue_order_to_work_queue_maps = [s \in SetIndices |-> {}]
  /\ next_enqueue_order = 1
  /\ removed_queues = {}

InitTH ==
  /\ now = 0
  /\ throttled_queues_ = {}
  /\ pending_pump_throttled_tasks_runtime_ = 0
  /\ posted_pumps = {}
  /\ forwarded = 0
  /\ time_domain = [q \in AllQueues |-> "real"]
  /\ pump_policy = [q \in AllQueues |-> "AUTO"]
  /\ immediate_incoming_queue = [q \in AllQueues |-> <<>>]
  /\ delayed_incoming_queue = [q \in AllQueues |-> {}]
  /\ delayed_wakeups = [d \in TimeDomains |-> {}]
  /\ throttled_now = 0
  /\ next_task = 1
  /\ dispatch_count = [t \in 1 .. MaxTasks |-> 0]

NoCall == [arg |-> 0, result |-> 0, done |-> FALSE]

Init ==
  /\ InitWQS
  /\ InitTH
  /\ runtime_call = NoCall
  /\ dcheck_failed = NoDcheck
  /\ last_op = Op("Init", NoQueue)

NextWQS ==
  \/ \E q \in WorkQueues : Push(q)
  \/ \E q \in WorkQueues : Pop(q)
  \/ DoWork
  \/ \E q \in WorkQueues, s \in SetIndices : CallAssignQueueToSet(q, s)
  \/ \E q \in WorkQueues : CallOnPushQueue(q)
  \/ \E q \in WorkQueues : CallOnPopQueue(q)
  \/ \E q \in WorkQueues : CallRemoveQueue(q)
  \/ \E s \in SetIndices : CallGetOldestQueueInSet(s)
  \/ \E s \in SetIndices : CallIsSetEmpty(s)

SpecWQS == Init /\ [][NextWQS]_vars

NextTH ==
  \/ \E q \in TaskQueues \cup {ControlQueue} : Throttle(q)
  \/ \E q \in TaskQueues : Unthrottle(q)
  \/ \E tick \in Ticks : AdvanceClock(tick)
  \/ \E thread \in Threads : NotifyImmediateWork(thread)
  \/ RunForwardedImmediateWork
  \/ \E q \in TaskQueues, thread \in Threads : PostTask(q, thread)
  \/ \E q \in TaskQueues, delay \in Delays : PostDelayedTask(q, delay)
  \/ RunPumpCallback
  \/ RunCancelledPumpCallback
  \/ RunAutoQueues

SpecTH == Init /\ [][NextTH]_vars

\* The same operations under the second sample of clock readings and delays.
NextLongDelay ==
  \/ \E q \in TaskQueues \cup {ControlQueue} : Throttle(q)
  \/ \E q \in TaskQueues : Unthrottle(q)
  \/ \E tick \in LateTicks : AdvanceClock(tick)
  \/ \E thread \in Threads : NotifyImmediateWork(thread)
  \/ RunForwardedImmediateWork
  \/ \E q \in TaskQueues, thread \in Threads : PostTask(q, thread)
  \/ \E q \in TaskQueues, delay \in LongDelays : PostDelayedTask(q, delay)
  \/ RunPumpCallback
  \/ RunCancelledPumpCallback
  \/ RunAutoQueues

SpecLongDelay == Init /\ [][NextLongDelay]_vars

\* The real time domain with the task queue manager asking it for due work,
\* beside the ThrottlingHelper operations of the owning thread.
NextRealTime ==
  \/ \E q \in TaskQueues : Throttle(q)
  \/ \E q \in TaskQueues : Unthrottle(q)
  \/ \E tick \in DueTicks : AdvanceClock(tick)
  \/ \E q \in TaskQueues : PostTask(q, "main")
  \/ \E q \in TaskQueues, delay \in LongDelays : PostDelayedTask(q, delay)
  \/ RunPumpCallback
  \/ RunCancelledPumpCallback
  \/ RunAutoQueues
  \/ CallMaybeAdvanceTime

SpecRealTime == Init /\ [][NextRealTime]_vars

\* Runs in which timers fire and posted tasks run.  Work arrives (Throttle,
\* posted tasks) while the clock reads at most EnvHorizon, and the clock reaches
\* LastTick only after the forwarding tasks have run, so that no pump is
\* requested for a time the bounded clock never reads.
WorkArrives == now <= EnvHorizon

AdvanceClockLive(tick) ==
  /\ tick = LastTick => forwarded = 0
  /\ AdvanceClock(tick)

NextLive ==
  \/ \E q \in TaskQueues : WorkArrives /\ Throttle(q)
  \/ \E q \in TaskQueues : Unthrottle(q)
  \/ \E q \in TaskQueues, thread \in Threads : WorkArrives /\ PostTask(q, thread)
  \/ \E q \in TaskQueues, delay \in Delays : WorkArrives /\ PostDelayedTask(q, delay)
  \/ \E tick \in LiveTicks : AdvanceClockLive(tick)
  \/ RunForwardedImmediateWork
  \/ RunPumpCallback
  \/ RunCancelledPumpCallback
  \/ RunAutoQueues

\* Time passes, a due timer of the control task runner fires, a task posted to
\* the control task runner runs.
Fairness ==
  /\ WF_vars(\E tick \in LiveTicks : AdvanceClockLive(tick))
  /\ WF_vars(RunPumpCallback)
  /\ WF_vars(RunForwardedImmediateWork)

SpecLive == Init /\ [][NextLive]_vars /\ Fairness

(* ------------- ThrottledRunTime as a function of its argument ---------- *)
RunTimes == {sec * OneSecond + f : sec \in (0 - MaxSeconds) .. MaxSeconds, f \in Fractions}

InitRunTime ==
  /\ InitWQS
  /\ InitTH
  /\ dcheck_failed = NoDcheck
  /\ last_op = Op("Init", NoQueue)
  /\ \E t \in RunTimes : runtime_call = [arg |-> t, result |-> 0, done |-> FALSE]

CallThrottledRunTime ==
  /\ ~runtime_call.done
  /\ runtime_call' = [runtime_call EXCEPT !.result = ThrottledRunTime(runtime_call.arg),
                                          !.done = TRUE]
  /\ last_op' = ThOp("ThrottledRunTime", NoQueue, -1)
  /\ UNCHANGED <<wqs_vars, th_vars, dcheck_failed>>

NextRunTime == CallThrottledRunTime

SpecRunTime == InitRunTime /\ [][NextRunTime]_vars

(* ----------------------- WorkQueueSets: properties --------------------- *)
\* The queues of a set that are registered and hold at least one task.
QueuesWithWork(s) ==
  {q \in WorkQueues \ removed_queues :
     work_queue_set_index[q] = s /\ work_queue[q] # <<>>}

TasksOf(q) == {work_queue[q][i] : i \in 1 .. Len(work_queue[q])}

EntriesOf(q) ==
  {<<s, p>> \in SetIndices \X UNION {enqueue_order_to_work_queue_maps[s] : s \in SetIndices} :
     p \in enqueue_order_to_work_queue_maps[s] /\ p[2] = q}

\* C1: FIFO within a priority set. Whenever no assertion has failed,
\* GetOldestQueueInSet(s) is a queue of s whose front task has the smallest
\* EnqueueOrder among all tasks remaining in the queues of s, and it is "none"
\* exactly when no queue of s holds a task.
C1_FifoWithinSet ==
  Running =>
    \A s \in SetIndices :
      LET oldest == GetOldestQueueInSet(enqueue_order_to_work_queue_maps, s)
      IN IF QueuesWithWork(s) = {}
         THEN oldest = NoQueue
         ELSE /\ oldest \in QueuesWithWork(s)
              /\ \A q \in QueuesWithWork(s) : \A t \in TasksOf(q) :
                   Head(work_queue[oldest]) <= t

\* A pop has just moved the oldest position of a set from the popped queue,
\* which still holds a task, to another queue of the same set.
C1_Witness ==
  /\ Running
  /\ last_op.op \in {"Pop", "DoWork"}
  /\ \E s \in SetIndices :
       /\ last_op.queue \in QueuesWithWork(s)
       /\ Cardinality(QueuesWithWork(s)) >= 2
       /\ GetOldestQueueInSet(enqueue_order_to_work_queue_maps, s) # last_op.queue

\* C2: priority precedence. The dispatch selection returns a queue of the
\* highest-priority (lowest-index) set that holds any task, whatever the
\* EnqueueOrders in lower-priority sets are.
C2_PriorityPrecedence ==
  Running =>
    LET selected == SelectWorkQueueToService(enqueue_order_to_work_queue_maps)
    IN \A s \in SetIndices : \A q \in QueuesWithWork(s) :
         /\ selected # NoQueue
         /\ work_queue[selected] # <<>>
         /\ work_queue_set_index[selected] <= s

\* After a dispatch step the selection is a queue of a higher-priority set
\* although a lower-priority set holds an older task.
C2_Witness ==
  /\ Running
  /\ last_op.op = "DoWork"
  /\ LET selected == SelectWorkQueueToService(enqueue_order_to_work_queue_maps)
     IN /\ selected # NoQueue
        /\ \E s \in SetIndices : \E q \in QueuesWithWork(s) :
             /\ work_queue_set_index[selected] < s
             /\ Head(work_queue[q]) < Head(work_queue[selected])

\* C8 as stated: a work queue is in the maps if and only if it has a front task.
C8_PresentIffFrontTask ==
  Running =>
    \A q \in WorkQueues : (EntriesOf(q) # {}) <=> (work_queue[q] # <<>>)

\* C8 amended: a work queue that has not been removed through RemoveQueue is in
\* the maps if and only if it has a front task; a removed queue is in no map,
\* whether or not it still holds tasks.
C8_PresentIffFrontTaskUnlessRemoved ==
  Running =>
    /\ \A q \in WorkQueues \ removed_queues :
         (EntriesOf(q) # {}) <=> (work_queue[q] # <<>>)
    /\ \A q \in removed_queues : EntriesOf(q) = {}

\* RemoveQueue has just removed a queue that still holds tasks.
C8_Witness ==
  /\ Running
  /\ last_op.op = "RemoveQueue"
  /\ work_queue[last_op.queue] # <<>>
  /\ EntriesOf(last_op.queue) = {}
  /\ \E q \in WorkQueues \ removed_queues : EntriesOf(q) # {}

\* C9: a work queue has at most one entry over all set-index maps, and that
\* entry is in the map of the queue's recorded set index.
C9_AtMostOneEntry ==
  \A q \in WorkQueues :
    /\ Cardinality(EntriesOf(q)) <= 1
    /\ Running => \A e \in EntriesOf(q) : e[1] = work_queue_set_index[q]

\* AssignQueueToSet has just moved a queue with a front task to another set.
C9_Witness ==
  /\ Running
  /\ last_op.op = "AssignQueueToSet"
  /\ work_queue_set_index[last_op.queue] = 1
  /\ Len(work_queue[last_op.queue]) >= 2
  /\ EntriesOf(last_op.queue) =
       {<<1, <<Head(work_queue[last_op.queue]), last_op.queue>>>>}

\* The entries of a queue in the given maps, each with its set index.
EntriesIn(maps, q) ==
  {<<s, p>> \in SetIndices \X UNION {maps[s] : s \in SetIndices} :
     p \in maps[s] /\ p[2] = q}

\* The entries of all other queues are the same in both maps.
OtherEntriesKept(maps_before, maps_after, q) ==
  \A s \in SetIndices :
    {p \in maps_after[s] : p[2] # q} = {p \in maps_before[s] : p[2] # q}

QueuesKept == work_queue' = work_queue /\ next_enqueue_order' = next_enqueue_order

\* C13: AssignQueueToSet(queue, new_set) on a queue with a front task leaves the
\* queue with exactly one entry, in new_set's map under the EnqueueOrder of its
\* front task (so none in the old set's map when the sets differ), records
\* new_set as its set index, fails no assertion and touches no other entry.
C13_AssignMovesEntry ==
  [][(last_op'.op = "AssignQueueToSet" /\ work_queue[last_op'.queue] # <<>>) =>
       LET q == last_op'.queue
           new_set == last_op'.set
       IN /\ <<work_queue_set_index[q], <<Head(work_queue[q]), q>>>> \in
               EntriesIn(enqueue_order_to_work_queue_maps, q)
          /\ EntriesIn(enqueue_order_to_work_queue_maps', q) =
               {<<new_set, <<Head(work_queue[q]), q>>>>}
          /\ work_queue_set_index' = [work_queue_set_index EXCEPT ![q] = new_set]
          /\ OtherEntriesKept(enqueue_order_to_work_queue_maps,
                              enqueue_order_to_work_queue_maps', q)
          /\ dcheck_failed' = NoDcheck
          /\ QueuesKept]_vars

\* AssignQueueToSet has just put a queue with a front task into set 0, where
\* its entry is the oldest, ahead of the entry of another queue; set 1 is empty.
C13_Witness ==
  /\ Running
  /\ last_op.op = "AssignQueueToSet"
  /\ last_op.set = 0
  /\ enqueue_order_to_work_queue_maps[1] = {}
  /\ Cardinality(enqueue_order_to_work_queue_maps[0]) = 2
  /\ GetOldestQueueInSet(enqueue_order_to_work_queue_maps, 0) = last_op.queue
  /\ next_enqueue_order = 3

\* C14: AssignQueueToSet(queue, new_set) on a queue without a front task
\* records new_set as the queue's set index and changes nothing else: every
\* set's map, every other set index and every queue stay as they were.
C14_AssignEmptyQueue ==
  [][(last_op'.op = "AssignQueueToSet" /\ work_queue[last_op'.queue] = <<>>) =>
       /\ enqueue_order_to_work_queue_maps' = enqueue_order_to_work_queue_maps
       /\ work_queue_set_index' =
            [work_queue_set_index EXCEPT ![last_op'.queue] = last_op'.set]
       /\ dcheck_failed' = NoDcheck
       /\ QueuesKept]_vars

\* AssignQueueToSet has just moved an empty queue to set 1 while set 0 holds the
\* entries of two other queues.
C14_Witness ==
  /\ Running
  /\ last_op.op = "AssignQueueToSet"
  /\ last_op.set = 1
  /\ work_queue[last_op.queue] = <<>>
  /\ work_queue_set_index[last_op.queue] = 1
  /\ enqueue_order_to_work_queue_maps[1] = {}
  /\ Cardinality(enqueue_order_to_work_queue_maps[0]) = 2

\* C15: when the front task of a queue was popped and OnPopQueue returned, the
\* entry under the popped task's EnqueueOrder is gone from the map of the
\* queue's set; a queue that still has a task has exactly one entry, under the
\* EnqueueOrder of its new front task in the same set's map, and a queue that
\* is now empty has none. No other entry and no set index changes.
C15_OnPopQueueReinserts ==
  [][(last_op'.op \in {"Pop", "DoWork"} /\ dcheck_failed' = NoDcheck) =>
       LET q == last_op'.queue
           set_index == work_queue_set_index[q]
           popped == Head(work_queue[q])
       IN /\ <<popped, q>> \in enqueue_order_to_work_queue_maps[set_index]
          /\ <<popped, q>> \notin enqueue_order_to_work_queue_maps'[set_index]
          /\ work_queue'[q] = Tail(work_queue[q])
          /\ EntriesIn(enqueue_order_to_work_queue_maps', q) =
               (IF work_queue'[q] # <<>>
                THEN {<<set_index, <<Head(work_queue'[q]), q>>>>}
                ELSE {})
          /\ OtherEntriesKept(enqueue_order_to_work_queue_maps,
                              enqueue_order_to_work_queue_maps', q)
          /\ work_queue_set_index' = work_queue_set_index]_vars

\* After two pops a queue is left with its third task, EnqueueOrder 3, and its
\* one entry is under that key.
C15_Witness ==
  /\ Running
  /\ last_op.op \in {"Pop", "DoWork"}
  /\ work_queue[last_op.queue] = <<3>>
  /\ EntriesOf(last_op.queue) =
       {<<work_queue_set_index[last_op.queue], <<3, last_op.queue>>>>}

\* C16: OnPopQueue(queue) fails an assertion exactly when the queue is not the
\* one GetOldestQueueInSet returns for the queue's set: when the set's map is
\* empty, and when its first entry belongs to another queue.
C16_OnPopQueueAsserts ==
  [][last_op'.op \in {"Pop", "DoWork", "OnPopQueue"} =>
       LET q == last_op'.queue
           set_index == work_queue_set_index[q]
           oldest == GetOldestQueueInSet(enqueue_order_to_work_queue_maps, set_index)
       IN /\ (dcheck_failed' = NoDcheck) <=> (oldest = q)
          /\ IsSetEmpty(enqueue_order_to_work_queue_maps, set_index) =>
               dcheck_failed' = "OnPopQueue:empty"
          /\ oldest \notin {q, NoQueue} => dcheck_failed' = "OnPopQueue:begin"]_vars

\* A task was popped from a queue that holds tasks but is not the oldest of
\* its set: the assertion on the first entry has failed.
C16_Witness ==
  /\ dcheck_failed = "OnPopQueue:begin"
  /\ last_op.op = "Pop"
  /\ GetOldestQueueInSet(enqueue_order_to_work_queue_maps,
                         work_queue_set_index[last_op.queue]) # last_op.queue
  /\ EntriesOf(last_op.queue) # {}

\* C17: RemoveQueue on a queue without a front task changes no map and no set
\* index; RemoveQueue on a queue with a front task erases the queue's entry and
\* no other; and from then on GetOldestQueueInSet never returns a removed queue,
\* whatever is pushed to, popped from or moved between the other queues.
C17_RemoveQueue ==
  /\ [][(last_op'.op = "RemoveQueue" /\ work_queue[last_op'.queue] = <<>>) =>
          /\ enqueue_order_to_work_queue_maps' = enqueue_order_to_work_queue_maps
          /\ work_queue_set_index' = work_queue_set_index
          /\ dcheck_failed' = NoDcheck
          /\ QueuesKept]_vars
  /\ [][(last_op'.op = "RemoveQueue" /\ work_queue[last_op'.queue] # <<>>) =>
          /\ EntriesIn(enqueue_order_to_work_queue_maps, last_op'.queue) # {}
          /\ EntriesIn(enqueue_order_to_work_queue_maps', last_op'.queue) = {}
          /\ OtherEntriesKept(enqueue_order_to_work_queue_maps,
                              enqueue_order_to_work_queue_maps', last_op'.queue)
          /\ work_queue_set_index' = work_queue_set_index
          /\ dcheck_failed' = NoDcheck
          /\ QueuesKept]_vars
  /\ [](\A q \in removed_queues : \A s \in SetIndices :
          GetOldestQueueInSet(enqueue_order_to_work_queue_maps, s) # q)

\* A queue was removed while it held the oldest task of its set; after a later
\* dispatch step the oldest queue of that set is another queue, with a younger
\* front task.
C17_Witness ==
  /\ Running
  /\ last_op.op = "DoWork"
  /\ \E q \in removed_queues :
       /\ work_queue[q] # <<>>
       /\ LET oldest == GetOldestQueueInSet(enqueue_order_to_work_queue_maps,
                                            work_queue_set_index[q])
          IN /\ oldest # NoQueue
             /\ Head(work_queue[oldest]) > Head(work_queue[q])

\* C18: GetOldestQueueInSet(set) returns none exactly when IsSetEmpty(set) is
\* true, otherwise the queue stored under the smallest EnqueueOrder key of the
\* set's map; IsSetEmpty(set) is true exactly when that map has no entry; and
\* neither call changes the maps, the set indices or the queues.
C18_Queries ==
  /\ [](last_op.op = "GetOldestQueueInSet" =>
          LET m == enqueue_order_to_work_queue_maps[last_op.set]
          IN /\ (last_op.result = NoQueue) <=>
                  IsSetEmpty(enqueue_order_to_work_queue_maps, last_op.set)
             /\ m # {} => \E p \in m : /\ p[2] = last_op.result
                                        /\ \A r \in m : p[1] <= r[1])
  /\ [](last_op.op = "IsSetEmpty" =>
          /\ (last_op.result = "true") <=>
               (GetOldestQueueInSet(enqueue_order_to_work_queue_maps, last_op.set) = NoQueue)
          /\ (last_op.result = "true") <=>
               (enqueue_order_to_work_queue_maps[last_op.set] = {}))
  /\ [][last_op'.op \in {"GetOldestQueueInSet", "IsSetEmpty"} =>
          /\ wqs_vars' = wqs_vars
          /\ dcheck_failed' = dcheck_failed]_vars

\* GetOldestQueueInSet(1) has returned the queue under the smaller of the two
\* keys of set 1, while set 0 is empty.
C18_Witness ==
  /\ last_op.op = "GetOldestQueueInSet"
  /\ last_op.set = 1
  /\ last_op.result \in WorkQueues
  /\ Cardinality(enqueue_order_to_work_queue_maps[1]) = 2
  /\ enqueue_order_to_work_queue_maps[0] = {}

\* C27: OnPushQueue on a queue without a front task fails the assertion, and
\* that assertion fails in no other case; after OnPushQueue on a queue with a
\* front task, called directly or by a push, the queue's one entry is in the map
\* of its current set under the EnqueueOrder of its front task.
C27_OnPushQueue ==
  /\ (last_op.op = "OnPushQueue" /\ work_queue[last_op.queue] = <<>>) =>
       /\ dcheck_failed = "OnPushQueue:has_enqueue_order"
       /\ EntriesOf(last_op.queue) = {}
  /\ dcheck_failed = "OnPushQueue:has_enqueue_order" =>
       (last_op.op = "OnPushQueue" /\ work_queue[last_op.queue] = <<>>)
  /\ (last_op.op \in {"OnPushQueue", "Push"} /\ work_queue[last_op.queue] # <<>>) =>
       /\ dcheck_failed = NoDcheck
       /\ EntriesOf(last_op.queue) =
            {<<work_queue_set_index[last_op.queue],
               <<Head(work_queue[last_op.queue]), last_op.queue>>>>}

\* A task was pushed to an empty queue of set 1: the queue is now in the map of
\* set 1 under that task's EnqueueOrder, behind the entry of another queue.
C27_Witness ==
  /\ Running
  /\ last_op.op = "Push"
  /\ work_queue_set_index[last_op.queue] = 1
  /\ Len(work_queue[last_op.queue]) = 1
  /\ Cardinality(enqueue_order_to_work_queue_maps[1]) = 2
  /\ GetOldestQueueInSet(enqueue_order_to_work_queue_maps, 1) # last_op.queue
  /\ <<Head(work_queue[last_op.queue]), last_op.queue>> \in
       enqueue_order_to_work_queue_maps[1]

\* The tasks held by the registered queues of a set.
TasksInSet(s) == UNION {TasksOf(q) : q \in QueuesWithWork(s)}

\* Task A (EnqueueOrder 1) is the only task of the low-priority set 1, and what
\* the high-priority set 0 holds is among B and C (EnqueueOrders 2 and 3); no
\* other set holds a task.
DrainScenario ==
  /\ Running
  /\ TasksInSet(1) = {1}
  /\ TasksInSet(0) \subseteq {2, 3}
  /\ \A s \in SetIndices \ {0, 1} : TasksInSet(s) = {}

\* C12: with A (EnqueueOrder 1) in the low-priority set and B, C (EnqueueOrders
\* 2, 3) in the high-priority set, a dispatch step is possible and pops B while B
\* is there, else C while C is there, else A: consecutive dispatch steps drain
\* B, C, A, without a failed assertion.
C12_DrainOrder ==
  /\ [](DrainScenario =>
          SelectWorkQueueToService(enqueue_order_to_work_queue_maps) # NoQueue)
  /\ [][(DrainScenario /\ last_op'.op = "DoWork") =>
          /\ dcheck_failed' = NoDcheck
          /\ Head(work_queue[last_op'.queue]) =
               (IF 2 \in TasksInSet(0) THEN 2 ELSE IF 3 \in TasksInSet(0) THEN 3 ELSE 1)
          /\ work_queue'[last_op'.queue] = Tail(work_queue[last_op'.queue])]_vars

\* A, B and C were pushed; the first dispatch step has popped B from its queue
\* in the high-priority set, C waits in another queue of that set and A in the
\* low-priority set.
C12_Witness ==
  /\ DrainScenario
  /\ last_op.op = "DoWork"
  /\ work_queue_set_index[last_op.queue] = 0
  /\ work_queue[last_op.queue] = <<>>
  /\ next_enqueue_order = 4
  /\ TasksInSet(0) = {3}

\* The maps of the sets outside keep are the same before and after the step.
OtherMapsKept(keep) ==
  \A s \in SetIndices \ keep :
    enqueue_order_to_work_queue_maps'[s] = enqueue_order_to_work_queue_maps[s]

PendingTasksUnchanged ==
  /\ immediate_incoming_queue' = immediate_incoming_queue
  /\ delayed_incoming_queue' = delayed_incoming_queue
  /\ dispatch_count' = dispatch_count

\* How often a task is held by the task queues.
Held(t) ==
  Cardinality({<<q, i>> \in TaskQueues \X (1 .. MaxTasks) :
                 i <= Len(immediate_incoming_queue[q]) /\ immediate_incoming_queue[q][i] = t})
  + Cardinality({<<q, d>> \in TaskQueues \X UNION {delayed_incoming_queue[q] : q \in TaskQueues} :
                   d \in delayed_incoming_queue[q] /\ d[2] = t})

\* C3: at most one PumpThrottledTasks callback is armed, it is the one for the
\* pending pump time, every other posted callback is cancelled, and when a
\* cancelled callback comes due nothing is pumped and the pending time stays.
C3_AtMostOnePendingPump ==
  /\ [](/\ Cardinality(LivePumps(posted_pumps)) <= 1
        /\ \A cb \in LivePumps(posted_pumps) :
             cb.run_at = pending_pump_throttled_tasks_runtime_)
  /\ [][last_op'.op = "CancelledPumpCallback" =>
          /\ PendingTasksUnchanged
          /\ pending_pump_throttled_tasks_runtime_' = pending_pump_throttled_tasks_runtime_
          /\ LivePumps(posted_pumps') = LivePumps(posted_pumps)]_vars
  /\ [][last_op'.op = "PumpThrottledTasks" =>
          \E cb \in LivePumps(posted_pumps) :
            cb.run_at = pending_pump_throttled_tasks_runtime_ /\ cb.run_at <= now]_vars

\* Both queues are throttled, a pump was superseded by a sooner one: the later
\* callback is still queued, cancelled, beside the armed one.
C3_Witness ==
  /\ throttled_queues_ = TaskQueues
  /\ \E live \in LivePumps(posted_pumps) : \E old \in posted_pumps :
       old.cancelled /\ live.run_at < old.run_at

\* C4: ThrottledRunTime(t) is greater than t and a whole number of seconds from
\* the epoch; for t on a second boundary it is t plus one second.
C4_ThrottledRunTime ==
  runtime_call.done =>
    /\ runtime_call.result > runtime_call.arg
    /\ runtime_call.result % OneSecond = 0
    /\ (runtime_call.arg % OneSecond = 0 =>
          runtime_call.result = runtime_call.arg + OneSecond)

\* ThrottledRunTime(2 s) = 3 s.
C4_Witness ==
  /\ runtime_call.done
  /\ runtime_call.arg = 2 * OneSecond
  /\ runtime_call.result = 3 * OneSecond

\* C5: a call of MaybeSchedulePumpThrottledTasksLocked made while a pump is
\* pending at T1 changes neither the pending time nor the posted callbacks when
\* its throttled run time is at or after T1; otherwise the pending time becomes
\* the throttled run time, the one armed callback is for that time, and every
\* callback posted before is cancelled.
C5_Coalescing ==
  [][(/\ last_op'.arg >= 0
      /\ last_op'.op # "PumpThrottledTasks"
      /\ ~IsNull(pending_pump_throttled_tasks_runtime_)) =>
       IF ThrottledRunTime(last_op'.arg) >= pending_pump_throttled_tasks_runtime_
       THEN /\ pending_pump_throttled_tasks_runtime_' = pending_pump_throttled_tasks_runtime_
            /\ posted_pumps' = posted_pumps
       ELSE /\ pending_pump_throttled_tasks_runtime_' = ThrottledRunTime(last_op'.arg)
            /\ LivePumps(posted_pumps') =
                 {[run_at |-> ThrottledRunTime(last_op'.arg), cancelled |-> FALSE]}
            /\ \A cb \in posted_pumps :
                 [cb EXCEPT !.cancelled = TRUE] \in posted_pumps']_vars

\* A request has just replaced a later pending pump by a sooner one.
C5_Witness ==
  /\ last_op.arg >= 0
  /\ last_op.op # "PumpThrottledTasks"
  /\ pending_pump_throttled_tasks_runtime_ = ThrottledRunTime(last_op.arg)
  /\ \E old \in posted_pumps :
       old.cancelled /\ old.run_at > pending_pump_throttled_tasks_runtime_

\* C6: a queue of throttled_queues_ has pump policy MANUAL and the throttled time
\* domain; any other queue has pump policy AUTO and the real time domain.
C6_ThrottledQueuesInvariant ==
  \A q \in TaskQueues :
    IF q \in throttled_queues_
    THEN pump_policy[q] = "MANUAL" /\ time_domain[q] = "throttled"
    ELSE pump_policy[q] = "AUTO" /\ time_domain[q] = "real"

\* One queue has just been unthrottled while the other one stays throttled.
C6_Witness ==
  /\ last_op.op = "Unthrottle"
  /\ last_op.queue \notin throttled_queues_
  /\ throttled_queues_ # {}
  /\ posted_pumps # {}

\* C7: when Throttle returns for a queue that holds work, no assertion has
\* failed, the pending pump time is set and a callback is armed for it.
C7_ThrottleSchedulesPump ==
  (/\ last_op.op = "Throttle"
   /\ last_op.queue \in TaskQueues
   /\ ~IsEmpty(immediate_incoming_queue, delayed_incoming_queue, last_op.queue)) =>
    /\ dcheck_failed = NoDcheck
    /\ ~IsNull(pending_pump_throttled_tasks_runtime_)
    /\ \E cb \in LivePumps(posted_pumps) :
         cb.run_at = pending_pump_throttled_tasks_runtime_

\* Throttle has just returned for a queue whose only work is a delayed task that
\* is not due: the pump is pending at the throttled run time of that task.
C7_Witness ==
  /\ last_op.op = "Throttle"
  /\ last_op.queue \in TaskQueues
  /\ immediate_incoming_queue[last_op.queue] = <<>>
  /\ \E d \in delayed_incoming_queue[last_op.queue] :
       /\ d[1] > now
       /\ pending_pump_throttled_tasks_runtime_ = ThrottledRunTime(d[1])

\* C10: Throttle changes no queue's pending tasks; Unthrottle directly after
\* Throttle of the same queue leaves the queue out of throttled_queues_, with
\* pump policy AUTO and the real time domain, and changes no pending task; and
\* at all times every task posted is either held once by one queue or has
\* entered the dispatch path once.
C10_ThrottleUnthrottleRoundTrip ==
  /\ [][(last_op'.op = "Throttle" /\ last_op'.queue \in TaskQueues) =>
          PendingTasksUnchanged]_vars
  /\ [][(last_op'.op = "Unthrottle" /\ last_op'.roundtrip) =>
          /\ last_op'.queue \notin throttled_queues_'
          /\ pump_policy'[last_op'.queue] = "AUTO"
          /\ time_domain'[last_op'.queue] = "real"
          /\ PendingTasksUnchanged]_vars
  /\ [](\A t \in 1 .. MaxTasks :
          IF t >= next_task
          THEN Held(t) = 0 /\ dispatch_count[t] = 0
          ELSE Held(t) + dispatch_count[t] = 1)

\* A queue holding work was throttled and directly unthrottled; the pump that
\* Throttle armed is still pending.
C10_Witness ==
  /\ last_op.op = "Unthrottle"
  /\ last_op.roundtrip
  /\ ~IsEmpty(immediate_incoming_queue, delayed_incoming_queue, last_op.queue)
  /\ throttled_queues_ = {}
  /\ LivePumps(posted_pumps) # {}

\* Throttle has just returned for a queue whose only work is one delayed task
\* that is not due on the throttled time domain's clock.
ThrottledWithOneDelayedTask ==
  /\ last_op'.op = "Throttle"
  /\ last_op'.queue \in TaskQueues
  /\ immediate_incoming_queue[last_op'.queue] = <<>>
  /\ Cardinality(delayed_incoming_queue[last_op'.queue]) = 1
  /\ \A d \in delayed_incoming_queue[last_op'.queue] : d[1] > throttled_now

PumpArmedForTaskOf(q) ==
  \A d \in delayed_incoming_queue[q] :
    /\ LivePumps(posted_pumps') = {[run_at |-> ThrottledRunTime(d[1]), cancelled |-> FALSE]}
    /\ pending_pump_throttled_tasks_runtime_' = ThrottledRunTime(d[1])
    /\ ThrottledRunTime(d[1]) # d[1]
    /\ (d[1] = 2300000 => pending_pump_throttled_tasks_runtime_' = 3000000)

\* C11 as stated: throttling a queue whose only pending work is a delayed task
\* with run time t leaves exactly one armed pump, for ThrottledRunTime(t) and not
\* for t; for t = 2.3 s the pump is for 3.0 s.
C11_PumpAtThrottledRunTime ==
  [][ThrottledWithOneDelayedTask => PumpArmedForTaskOf(last_op'.queue)]_vars

\* C11 amended: the same, for a Throttle called while no pump is pending.
C11_PumpAtThrottledRunTimeWhenNonePending ==
  [][(ThrottledWithOneDelayedTask /\ IsNull(pending_pump_throttled_tasks_runtime_)) =>
       PumpArmedForTaskOf(last_op'.queue)]_vars

\* At the epoch, Throttle has returned for a queue whose only work is a delayed
\* task with run time 2.3 s; the one armed pump is for 3.0 s.
C11_Witness ==
  /\ last_op.op = "Throttle"
  /\ last_op.queue \in TaskQueues
  /\ now = 0
  /\ immediate_incoming_queue[last_op.queue] = <<>>
  /\ \E task \in 1 .. MaxTasks :
       delayed_incoming_queue[last_op.queue] = {<<2300000, task>>}
  /\ posted_pumps = {[run_at |-> 3000000, cancelled |-> FALSE]}
  /\ pending_pump_throttled_tasks_runtime_ = 3000000

\* C19: a run of PumpThrottledTasks calls PumpQueue once on every queue that is
\* in throttled_queues_ and not empty when it runs, also when none of the
\* queue's tasks is due, and on no other queue; a queue that is not pumped keeps
\* all its tasks, a pumped queue keeps only delayed tasks that are not due.
C19_PumpsThrottledNonEmpty ==
  [][last_op'.op = "PumpThrottledTasks" =>
       \A q \in TaskQueues :
         IF q \in throttled_queues_ /\
            ~IsEmpty(immediate_incoming_queue, delayed_incoming_queue, q)
         THEN /\ last_op'.pumped[q] = 1
              /\ immediate_incoming_queue'[q] = <<>>
              /\ delayed_incoming_queue'[q] =
                   {d \in delayed_incoming_queue[q] : d[1] > now}
         ELSE /\ last_op'.pumped[q] = 0
              /\ immediate_incoming_queue'[q] = immediate_incoming_queue[q]
              /\ delayed_incoming_queue'[q] = delayed_incoming_queue[q]]_vars

\* One run has pumped both queues: one of them held only a delayed task that
\* is not due yet and still holds it.
C19_Witness ==
  /\ last_op.op = "PumpThrottledTasks"
  /\ \A q \in TaskQueues : last_op.pumped[q] = 1
  /\ \E q \in TaskQueues :
       /\ delayed_incoming_queue[q] # {}
       /\ \A d \in delayed_incoming_queue[q] : d[1] > now

\* C20: when PumpThrottledTasks has completed, the wake-ups left on the
\* throttled time domain are all later than now; a pump is pending if and only
\* if one is left, and then the pending time is ThrottledRunTime of the earliest
\* one and the one armed callback is for that time; otherwise none is armed.
C20_PendingAfterPump ==
  last_op.op = "PumpThrottledTasks" =>
    /\ dcheck_failed = NoDcheck
    /\ \A w \in delayed_wakeups["throttled"] : w[1] > now
    /\ ~IsNull(pending_pump_throttled_tasks_runtime_) <=>
         HasNextScheduledRunTime(delayed_wakeups, "throttled")
    /\ IF HasNextScheduledRunTime(delayed_wakeups, "throttled")
       THEN /\ pending_pump_throttled_tasks_runtime_ =
                 ThrottledRunTime(NextScheduledRunTime(delayed_wakeups, "throttled"))
            /\ LivePumps(posted_pumps) =
                 {[run_at |-> pending_pump_throttled_tasks_runtime_, cancelled |-> FALSE]}
       ELSE LivePumps(posted_pumps) = {}

\* A run at 2 s has left a wake-up at 3.3 s: the next pump is pending at 4 s.
C20_Witness ==
  /\ last_op.op = "PumpThrottledTasks"
  /\ now = 2 * OneSecond
  /\ HasNextScheduledRunTime(delayed_wakeups, "throttled")
  /\ NextScheduledRunTime(delayed_wakeups, "throttled") = 3300000
  /\ pending_pump_throttled_tasks_runtime_ = 4 * OneSecond

\* C26: Throttle called with the control task queue fails the assertion and
\* changes nothing: the queue is not added to throttled_queues_, its time domain
\* and pump policy stay as they were, and so does every other field.
C26_ThrottleControlQueueRejected ==
  /\ [][(last_op'.op = "Throttle" /\ last_op'.queue = ControlQueue) =>
          /\ dcheck_failed' = "Throttle:task_runner"
          /\ th_vars' = th_vars]_vars
  /\ [](/\ ControlQueue \notin throttled_queues_
        /\ time_domain[ControlQueue] = "real"
        /\ pump_policy[ControlQueue] = "AUTO")

\* Throttle was called with the control task queue while another queue is
\* throttled and its pump is pending: the assertion has failed.
C26_Witness ==
  /\ dcheck_failed = "Throttle:task_runner"
  /\ last_op.op = "Throttle"
  /\ last_op.queue = ControlQueue
  /\ throttled_queues_ # {}
  /\ LivePumps(posted_pumps) # {}

\* C21: in every step that is not a run of PumpThrottledTasks, a request made
\* through MaybeSchedulePumpThrottledTasksLocked with run time r leaves the
\* pending pump time at the minimum of its old value and ThrottledRunTime(r)
\* (ThrottledRunTime(r) when none was pending) and a step without a request
\* leaves it as it is; a run of PumpThrottledTasks clears it and sets it again
\* only from its own request.  So between two runs the pending time is the
\* minimum of the throttled run times requested since it was cleared, never
\* later than any of them, and it only moves earlier.
C21_PendingIsEarliestRequest ==
  [][LET pending == pending_pump_throttled_tasks_runtime_
         request == last_op'.arg
     IN IF last_op'.op = "PumpThrottledTasks"
        THEN pending_pump_throttled_tasks_runtime_' =
               (IF request >= 0 THEN ThrottledRunTime(request) ELSE 0)
        ELSE IF request >= 0
        THEN /\ pending_pump_throttled_tasks_runtime_' =
                  (IF IsNull(pending) \/ ThrottledRunTime(request) < pending
                   THEN ThrottledRunTime(request) ELSE pending)
             /\ pending_pump_throttled_tasks_runtime_' <= ThrottledRunTime(request)
             /\ (~IsNull(pending) => pending_pump_throttled_tasks_runtime_' <= pending)
        ELSE pending_pump_throttled_tasks_runtime_' = pending]_vars

\* A request for a later time has just been made while a sooner pump is
\* pending: the pending time is still the sooner one.
C21_Witness ==
  /\ last_op.arg >= 0
  /\ last_op.op # "PumpThrottledTasks"
  /\ ~IsNull(pending_pump_throttled_tasks_runtime_)
  /\ pending_pump_throttled_tasks_runtime_ < ThrottledRunTime(last_op.arg)
  /\ LivePumps(posted_pumps) =
       {[run_at |-> pending_pump_throttled_tasks_runtime_, cancelled |-> FALSE]}

\* Tasks waiting in a task queue.
WaitingTasks(imm, del, q) ==
  {imm[q][i] : i \in 1 .. Len(imm[q])} \cup {d[2] : d \in del[q]}

\* C22: the pending pump time and the time of every posted pump callback are
\* whole multiples of one second from the epoch, and a task leaves a queue that
\* is in throttled_queues_ only in a run of PumpThrottledTasks.
C22_WholeSecondsAndOnlyPump ==
  /\ [](/\ pending_pump_throttled_tasks_runtime_ % OneSecond = 0
        /\ \A cb \in posted_pumps : cb.run_at % OneSecond = 0)
  /\ [][\A q \in throttled_queues_ :
          WaitingTasks(immediate_incoming_queue, delayed_incoming_queue, q) \
            WaitingTasks(immediate_incoming_queue', delayed_incoming_queue', q) # {}
          => /\ last_op'.op = "PumpThrottledTasks"
             /\ last_op'.pumped[q] = 1]_vars

\* A pump that ran at 2 s took the tasks of a throttled queue and left the next
\* pump pending at 4 s, for a task that is due at 3.3 s.
C22_Witness ==
  /\ last_op.op = "PumpThrottledTasks"
  /\ \E q \in throttled_queues_ :
       /\ last_op.pumped[q] = 1
       /\ WaitingTasks(immediate_incoming_queue, delayed_incoming_queue, q) = {}
  /\ pending_pump_throttled_tasks_runtime_ = 4 * OneSecond
  /\ \E cb \in LivePumps(posted_pumps) : cb.run_at = 4 * OneSecond
  /\ \E q \in throttled_queues_ : \E d \in delayed_incoming_queue[q] : d[1] = 3300000

\* C23: a report of immediate work made on a thread other than the control task
\* runner's posts one forwarding task and changes neither the pending pump time
\* nor the posted pump callbacks, and makes no scheduling request; when the
\* forwarding task runs, on the control task runner's thread, it is that run
\* that requests a pump for the current time.
C23_OffThreadForwards ==
  /\ [][(last_op'.op = "OnTimeDomainHasImmediateWork" /\
         last_op'.queue \in Threads \ {"main"}) =>
          /\ forwarded' = forwarded + 1
          /\ last_op'.arg = -1
          /\ pending_pump_throttled_tasks_runtime_' = pending_pump_throttled_tasks_runtime_
          /\ posted_pumps' = posted_pumps]_vars
  /\ [][(last_op'.op = "OnTimeDomainHasImmediateWork" /\
         last_op'.queue = "forwarded") =>
          /\ forwarded' = forwarded - 1
          /\ last_op'.arg = now
          /\ IF IsNull(pending_pump_throttled_tasks_runtime_) \/
                ThrottledRunTime(now) < pending_pump_throttled_tasks_runtime_
             THEN /\ pending_pump_throttled_tasks_runtime_' = ThrottledRunTime(now)
                  /\ LivePumps(posted_pumps') =
                       {[run_at |-> ThrottledRunTime(now), cancelled |-> FALSE]}
             ELSE /\ pending_pump_throttled_tasks_runtime_' =
                       pending_pump_throttled_tasks_runtime_
                  /\ posted_pumps' = posted_pumps]_vars

\* Immediate work was reported twice on another thread while a queue is
\* throttled: two forwarding tasks wait, no pump is pending, none is posted.
C23_Witness ==
  /\ last_op.op = "OnTimeDomainHasImmediateWork"
  /\ last_op.queue \in Threads \ {"main"}
  /\ forwarded = 2
  /\ throttled_queues_ # {}
  /\ IsNull(pending_pump_throttled_tasks_runtime_)
  /\ posted_pumps = {}

\* C29: the pending pump time is non-null exactly when a PumpThrottledTasks
\* callback is posted that has neither run nor been cancelled.
C29_PendingIffArmed ==
  ~IsNull(pending_pump_throttled_tasks_runtime_) <=> LivePumps(posted_pumps) # {}

\* A pump has run and found nothing left to wait for: no pump is pending, and
\* the only callback still posted is one that was cancelled earlier.
C29_Witness ==
  /\ last_op.op = "PumpThrottledTasks"
  /\ IsNull(pending_pump_throttled_tasks_runtime_)
  /\ posted_pumps # {}
  /\ \A cb \in posted_pumps : cb.cancelled

\* C30: however the reports of immediate work made on other threads interleave
\* with Throttle, Unthrottle, reports of delayed work and pump runs, a step that
\* posts a forwarding task writes neither the pending pump time nor the posted
\* callbacks, at most one pump callback is armed, and a forwarded report arms
\* at most one callback and none when a pump is pending at or before its time:
\* the forwarded reports that run after a pump has run arm one further pump.
C30_InterleavedForwards ==
  /\ [][forwarded' > forwarded =>
          /\ forwarded' = forwarded + 1
          /\ pending_pump_throttled_tasks_runtime_' = pending_pump_throttled_tasks_runtime_
          /\ posted_pumps' = posted_pumps]_vars
  /\ [](Cardinality(LivePumps(posted_pumps)) <= 1)
  /\ [][last_op'.queue = "forwarded" =>
          /\ Cardinality(LivePumps(posted_pumps') \ posted_pumps) <= 1
          /\ ((~IsNull(pending_pump_throttled_tasks_runtime_) /\
               pending_pump_throttled_tasks_runtime_ <= ThrottledRunTime(now)) =>
                LivePumps(posted_pumps') = LivePumps(posted_pumps))]_vars

\* After a pump has run, the second of two forwarded reports has just run: one
\* callback is armed, for the second after the first report, and it is the only
\* callback posted.
C30_Witness ==
  /\ last_op.op = "OnTimeDomainHasImmediateWork"
  /\ last_op.queue = "forwarded"
  /\ forwarded = 0
  /\ throttled_now > 0
  /\ pending_pump_throttled_tasks_runtime_ = ThrottledRunTime(last_op.arg)
  /\ posted_pumps =
       {[run_at |-> pending_pump_throttled_tasks_runtime_, cancelled |-> FALSE]}

\* Every throttled queue that holds a task has had its notification: Throttle
\* and the posting of a task to a throttled queue deliver it in the same step.
WaitsForPump(q) ==
  /\ q \in throttled_queues_
  /\ ~IsEmpty(immediate_incoming_queue, delayed_incoming_queue, q)
  /\ last_op.op # "PumpThrottledTasks"

\* C31: when timers fire and posted tasks run, a throttled queue that holds a
\* task and has been notified of is followed by a run of PumpThrottledTasks,
\* and that run pumps the queue if the queue is still throttled and still
\* holds a task when it runs (a queue that was unthrottled in between may have
\* been emptied by the task queue manager, or may not be throttled any more).
C31_EventuallyPumped ==
  \A q \in TaskQueues :
    WaitsForPump(q) ~>
      (/\ last_op.op = "PumpThrottledTasks"
       /\ \/ last_op.pumped[q] = 1
          \/ q \notin throttled_queues_
          \/ IsEmpty(immediate_incoming_queue, delayed_incoming_queue, q))

\* The pump armed for 3 s has run and pumped a throttled queue; a task of that
\* queue has entered the dispatch path and no pump is pending any more.
C31_Witness ==
  /\ last_op.op = "PumpThrottledTasks"
  /\ now = LastTick
  /\ \E q \in throttled_queues_ :
       /\ last_op.pumped[q] = 1
       /\ IsEmpty(immediate_incoming_queue, delayed_incoming_queue, q)
  /\ \E t \in 1 .. MaxTasks : dispatch_count[t] = 1
  /\ IsNull(pending_pump_throttled_tasks_runtime_)

\* C32: the assertion of OnTimeDomainHasDelayedWork never fails: whenever it is
\* called, after a delayed task was posted to a throttled queue or from
\* Throttle on a queue that holds tasks but no immediate work, the throttled
\* time domain has a next scheduled run time.
C32_DelayedWorkAssertionHolds ==
  dcheck_failed # "OnTimeDomainHasDelayedWork:has_delayed_task"

\* Throttle has just run on a queue that holds only a delayed task that is not
\* due: it called OnTimeDomainHasDelayedWork, which found the task's wake-up on
\* the throttled time domain and requested a pump for it.
C32_Witness ==
  /\ last_op.op = "Throttle"
  /\ last_op.queue \in TaskQueues
  /\ last_op.arg > now
  /\ immediate_incoming_queue[last_op.queue] = <<>>
  /\ \E d \in delayed_incoming_queue[last_op.queue] :
       /\ d[1] = last_op.arg
       /\ <<d[1], last_op.queue>> \in delayed_wakeups["throttled"]
  /\ NextScheduledRunTime(delayed_wakeups, "throttled") = last_op.arg
  /\ pending_pump_throttled_tasks_runtime_ = ThrottledRunTime(last_op.arg)
  /\ dcheck_failed = NoDcheck

\* C33: Unthrottle changes neither the pending pump time nor the posted pump
\* callbacks, so the armed pump stays armed; and a run of PumpThrottledTasks
\* does not pump a queue that is not throttled any more: such a queue keeps
\* all its tasks in that step.
C33_UnthrottleKeepsPump ==
  /\ [][last_op'.op = "Unthrottle" =>
          /\ pending_pump_throttled_tasks_runtime_' = pending_pump_throttled_tasks_runtime_
          /\ posted_pumps' = posted_pumps
          /\ last_op'.queue \notin throttled_queues_']_vars
  /\ [][last_op'.op = "PumpThrottledTasks" =>
          \A q \in TaskQueues :
            (q \notin throttled_queues_ \/ time_domain[q] = "real") =>
              /\ last_op'.pumped[q] = 0
              /\ immediate_incoming_queue'[q] = immediate_incoming_queue[q]
              /\ delayed_incoming_queue'[q] = delayed_incoming_queue[q]]_vars

\* A pump that was armed while a queue was throttled has run after the queue
\* was unthrottled: no queue is throttled, nothing was pumped, and a queue still
\* holds its immediate task.
C33_Witness ==
  /\ last_op.op = "PumpThrottledTasks"
  /\ throttled_queues_ = {}
  /\ \A q \in TaskQueues : last_op.pumped[q] = 0
  /\ \E q \in TaskQueues :
       immediate_incoming_queue[q] # <<>> /\ time_domain[q] = "real"
  /\ IsNull(pending_pump_throttled_tasks_runtime_)

\* C36: Throttle on a queue that is already in throttled_queues_ leaves
\* throttled_queues_, the time domain and the pump policy of every queue as
\* they were, leaves at most one pump callback armed, and when a pump was
\* pending one is pending afterwards, at the same time or sooner.
C36_ThrottleAgain ==
  [][(last_op'.op = "Throttle" /\ last_op'.queue \in throttled_queues_) =>
       /\ throttled_queues_' = throttled_queues_
       /\ time_domain' = time_domain
       /\ pump_policy' = pump_policy
       /\ Cardinality(LivePumps(posted_pumps')) <= 1
       /\ (~IsNull(pending_pump_throttled_tasks_runtime_) =>
             /\ ~IsNull(pending_pump_throttled_tasks_runtime_')
             /\ pending_pump_throttled_tasks_runtime_' <=
                  pending_pump_throttled_tasks_runtime_)]_vars

\* Throttle was called again, at 2 s, on a throttled queue that holds an
\* immediate task: the pump armed for 1 s is still the only one, the request
\* for 3 s changed nothing.
C36_Witness ==
  /\ last_op.op = "Throttle"
  /\ last_op.repeated
  /\ last_op.queue \in throttled_queues_
  /\ immediate_incoming_queue[last_op.queue] # <<>>
  /\ last_op.arg = 2 * OneSecond
  /\ pending_pump_throttled_tasks_runtime_ = OneSecond
  /\ LivePumps(posted_pumps) = {[run_at |-> OneSecond, cancelled |-> FALSE]}

\* C34: every delay given to PostDelayedTask for a pump is the pending pump
\* time minus now; when OnTimeDomainHasImmediateWork runs on the control task
\* runner's thread with no pump pending, one pump is armed and its delay is
\* greater than 0 and at most one second.  (A callback posted with a delay is
\* due that long after the clock reading of the step, so its delay is its run
\* time minus now.)
C34_PumpDelay ==
  [][LET armed == LivePumps(posted_pumps') \ posted_pumps
     IN /\ \A cb \in armed :
             cb.run_at - now = pending_pump_throttled_tasks_runtime_' - now
        /\ (/\ last_op'.op = "OnTimeDomainHasImmediateWork"
            /\ last_op'.queue \in {"main", "forwarded"}
            /\ IsNull(pending_pump_throttled_tasks_runtime_)) =>
             /\ Cardinality(armed) = 1
             /\ \A cb \in armed : cb.run_at - now > 0 /\ cb.run_at - now <= OneSecond]_vars

\* No task was ever posted and no pump has run; immediate work reported on the
\* control task runner's thread at 2 s has armed the only pump, for 3 s.
C34_Witness ==
  /\ last_op.op = "OnTimeDomainHasImmediateWork"
  /\ last_op.queue = "main"
  /\ now = 2 * OneSecond
  /\ next_task = 1
  /\ throttled_now = 0
  /\ pending_pump_throttled_tasks_runtime_ = 3 * OneSecond
  /\ posted_pumps = {[run_at |-> 3 * OneSecond, cancelled |-> FALSE]}

\* C35: for a run time t at or after the epoch, ThrottledRunTime(t) - t is
\* greater than 0 and at most one second, and exactly one second when t is on
\* a second boundary.
C35_ThrottlingDelayBound ==
  (runtime_call.done /\ runtime_call.arg >= 0) =>
    /\ runtime_call.result - runtime_call.arg > 0
    /\ runtime_call.result - runtime_call.arg <= OneSecond
    /\ (Rem(runtime_call.arg, OneSecond) = 0 =>
          runtime_call.result - runtime_call.arg = OneSecond)

\* ThrottledRunTime(3.000001 s) = 4 s: a delay of one microsecond less than a
\* second.
C35_Witness ==
  /\ runtime_call.done
  /\ runtime_call.arg = 3 * OneSecond + 1
  /\ runtime_call.result - runtime_call.arg = OneSecond - 1

(* ----------------------- RealTimeDomain: properties -------------------- *)
\* C24: MaybeAdvanceTime returns true exactly when the real time domain has a
\* scheduled run time and the earliest one is at or before now, and then asks
\* for no wake-up; when the earliest one is later than now it returns false and
\* asks for a wake-up after (run time - now).
C24_MaybeAdvanceTime ==
  last_op.op = "MaybeAdvanceTime" =>
    LET has == HasNextScheduledRunTime(delayed_wakeups, "real")
    IN /\ (last_op.result = "true") <=>
            (has /\ NextScheduledRunTime(delayed_wakeups, "real") <= now)
       /\ last_op.result \in {"true", "false"}
       /\ last_op.result = "true" => last_op.delay = -1
       /\ (has /\ NextScheduledRunTime(delayed_wakeups, "real") > now) =>
            /\ last_op.result = "false"
            /\ last_op.delay = NextScheduledRunTime(delayed_wakeups, "real") - now

\* MaybeAdvanceTime has returned true at the very tick of the earliest run time.
C24_Witness ==
  /\ last_op.op = "MaybeAdvanceTime"
  /\ last_op.result = "true"
  /\ HasNextScheduledRunTime(delayed_wakeups, "real")
  /\ NextScheduledRunTime(delayed_wakeups, "real") = now
  /\ now = 2300000

\* C25: without a next scheduled run time MaybeAdvanceTime returns false and
\* asks for no wake-up, and PumpThrottledTasks ends with the pending pump time
\* null and no callback armed; neither fails an assertion.
C25_NoNextRunTimeIsIdle ==
  /\ (last_op.op = "MaybeAdvanceTime" /\
      ~HasNextScheduledRunTime(delayed_wakeups, "real")) =>
       /\ last_op.result = "false"
       /\ last_op.delay = -1
       /\ dcheck_failed = NoDcheck
  /\ (last_op.op = "PumpThrottledTasks" /\
      ~HasNextScheduledRunTime(delayed_wakeups, "throttled")) =>
       /\ IsNull(pending_pump_throttled_tasks_runtime_)
       /\ LivePumps(posted_pumps) = {}
       /\ dcheck_failed = NoDcheck

\* After a pump that left nothing scheduled, with a queue still throttled,
\* MaybeAdvanceTime finds the real time domain without a run time.
C25_Witness ==
  /\ last_op.op = "MaybeAdvanceTime"
  /\ last_op.result = "false"
  /\ last_op.delay = -1
  /\ delayed_wakeups = [d \in TimeDomains |-> {}]
  /\ throttled_now > 0
  /\ throttled_queues_ # {}
  /\ IsNull(pending_pump_throttled_tasks_runtime_)

\* C28: a delayed task posted to a queue of the real time domain gets the run
\* time now + delay, not rounded, in the queue and as the domain's wake-up.
C28_RealRunTimeNotQuantized ==
  (last_op.op = "PostDelayedTask" /\ time_domain[last_op.queue] = "real") =>
    /\ <<now + last_op.delay, next_task - 1>> \in delayed_incoming_queue[last_op.queue]
    /\ <<now + last_op.delay, last_op.queue>> \in delayed_wakeups["real"]
    /\ \A d \in delayed_incoming_queue[last_op.queue] :
         d[2] = next_task - 1 => d[1] = now + last_op.delay

\* A delayed task was posted at 2.3 s to a queue of the real time domain while
\* the throttled domain's clock is behind: its run time is 4.6 s.
C28_Witness ==
  /\ last_op.op = "PostDelayedTask"
  /\ time_domain[last_op.queue] = "real"
  /\ throttled_now # now
  /\ throttled_queues_ # {}
  /\ <<4600000, next_task - 1>> \in delayed_incoming_queue[last_op.queue]

====
